---- MODULE Spec2Model ----
(***************************************************************************)
(* lynkc backend: ephemeral channels (text + files) kept in a TTL-keyed    *)
(* store.  The model follows backend/src/app/handlers.rs (create_channel,  *)
(* fetch_channel, update_channel), backend/src/channel.rs (codec,          *)
(* validator, password subsystem) and backend/src/state.rs (key naming,    *)
(* refresh_ttl).  Every store command (GET, TTL, EXPIRE, SET EX) is one    *)
(* atomic step; a handler is suspended between two of its store commands,  *)
(* where the store clock and the other requests may move.  The functions   *)
(* of channel.rs are also applied on their own, to arguments no request of *)
(* the service model carries (Units): call is the last such application.   *)
(***************************************************************************)
EXTENDS Integers, Sequences, FiniteSets, TLC

VARIABLES store, pc, req, resp, nreq, step, madeHash, lastWrite, call

vars == <<store, pc, req, resp, nreq, step, madeHash, lastWrite, call>>

(***************************************************************************)
(* Bounds of the model and program constants.                              *)
(***************************************************************************)
\* number of requests issued in one behaviour
MaxRequests == 2
\* the configured channel TTL (AppConfig.channel_ttl), in clock ticks
ChannelTtl == 2
\* config.rs: 100 * 1024 * 1024
MAX_CHANNEL_BYTES == 104857600

\* concurrent request handlers
Procs == {1, 2}
\* identifiers generate_channel_id can return (two of the 16^8)
Ids == {"a1b2c3d4", "ffffffff"}
\* passwords generate_channel_password can return (two of the 62^12)
GenPasswords == {"pw1", "pw2"}

(***************************************************************************)
(* Option<T>                                                               *)
(***************************************************************************)
None == [some |-> FALSE]
Some(v) == [some |-> TRUE, v |-> v]

\* the x-channel-password header values a client sends
ProvidedPasswords == {None} \cup {Some(p) : p \in GenPasswords}

(***************************************************************************)
(* Strings.  A string that is no JSON document is a label with its UTF-8   *)
(* byte length (fmt "plain"); a JSON document is given by its members (see *)
(* the codec).  A base64 string is a label with whether it is valid        *)
(* standard base64 and the number of bytes it decodes to.                  *)
(***************************************************************************)
Str(label, n) == [fmt |-> "plain", s |-> label, n |-> n]
EmptyStr == Str("", 0)
B64(label, n) == [s |-> label, b64 |-> TRUE, n |-> n]
NotB64(label) == [s |-> label, b64 |-> FALSE, n |-> 0]

\* String::len: the UTF-8 byte length
StrLen(t) == t.n

\* BASE64_ENGINE.decode: the decoded bytes (their number), or an error
Base64Decode(d) == IF d.b64 THEN [ok |-> TRUE, len |-> d.n] ELSE [ok |-> FALSE, len |-> 0]

ChannelFile(id, name, mime, size, data) ==
    [id |-> id, name |-> name, mime_type |-> mime, size |-> size, data_base64 |-> data]

ChannelData(text, files) == [text |-> text, files |-> files]

StoredChannel(hash, data) == [password_hash |-> hash, data |-> data]

FileA == ChannelFile("f1", "a.txt", "text/plain", 3, B64("QUJD", 3))
\* the declared size is advisory: this one declares 0 and carries 1 byte
FileB == ChannelFile("f2", "b.bin", "application/octet-stream", 0, B64("QQ==", 1))
FileBad == ChannelFile("f3", "c.bin", "application/octet-stream", 1, NotB64("?!"))

DataHello == ChannelData(Str("hello", 5), <<>>)
\* exactly the maximum: the text and the 1 + 3 decoded bytes of the files
DataNew == ChannelData(Str("max-4", MAX_CHANNEL_BYTES - 4), <<FileB, FileA>>)
\* one byte over
DataOver == ChannelData(Str("max-2", MAX_CHANNEL_BYTES - 2), <<FileA>>)
DataBadFile == ChannelData(Str("hello", 5), <<FileA, FileBad>>)

\* bodies of PUT requests (UpdateChannelRequest: text, files)
UpdatePayloads == {DataHello, DataNew, DataOver, DataBadFile}
\* bodies of POST requests (CreateChannelRequest: text is optional)
CreatePayloads ==
    {[text |-> Some(d.text), files |-> d.files] : d \in {DataOver, DataBadFile}}
        \cup {[text |-> None, files |-> <<FileA>>]}

(***************************************************************************)
(* Password subsystem (channel.rs)                                         *)
(***************************************************************************)
\* the lowercase-hex SHA-256 digest of the password: 64 characters, never
\* empty, one digest per password
hash_channel_password(password) == <<"sha256", password>>

\* the empty string, as a stored hash
EmptyHash == <<>>

\* a verifier that lets a request without the password header through
verify_missing_accepted(stored_hash, provided) ==
    IF stored_hash.some /\ stored_hash.v # EmptyHash
    THEN IF ~provided.some
         THEN TRUE
         ELSE stored_hash.v = hash_channel_password(provided.v)
    ELSE TRUE

\* a verifier that asks for a password and does not compare it
verify_any_password(stored_hash, provided) ==
    IF stored_hash.some /\ stored_hash.v # EmptyHash
    THEN provided.some
    ELSE TRUE

\* a verifier for which an empty stored hash protects like any other
verify_empty_protects(stored_hash, provided) ==
    IF stored_hash.some
    THEN IF ~provided.some
         THEN FALSE
         ELSE stored_hash.v = hash_channel_password(provided.v)
    ELSE TRUE

verify_channel_password(stored_hash, provided) ==
    IF stored_hash.some /\ stored_hash.v # EmptyHash
    THEN IF ~provided.some
         THEN FALSE
         ELSE stored_hash.v = hash_channel_password(provided.v)
    ELSE TRUE

(***************************************************************************)
(* Validator (channel.rs)                                                  *)
(***************************************************************************)
\* usize::checked_add: None on overflow.  The model's usize is as wide as
\* TLC's integers; no payload of the model comes near either limit.
UsizeMax == 2147483646 + 1
checked_add(a, b) == IF a > UsizeMax - b THEN None ELSE Some(a + b)

Ok == "Ok"

RECURSIVE ValidateFiles(_, _)
\* the loop over data.files from the running total: the final total, or the
\* error that ends the loop
ValidateFiles(files, total) ==
    IF files = <<>>
    THEN [err |-> Ok, total |-> total]
    ELSE LET decoded == Base64Decode(Head(files).data_base64)
         IN  IF ~decoded.ok
             THEN [err |-> "InvalidFileData", total |-> total]
             ELSE LET sum == checked_add(total, decoded.len)
                  IN  IF ~sum.some
                      THEN [err |-> "PayloadTooLarge", total |-> total]
                      ELSE ValidateFiles(Tail(files), sum.v)

\* a validator that decodes the files and forgets the size limit
validate_files_only(data) == ValidateFiles(data.files, StrLen(data.text)).err

\* a validator that measures the text before it decodes any file
validate_text_first(data) ==
    IF StrLen(data.text) > MAX_CHANNEL_BYTES
    THEN "PayloadTooLarge"
    ELSE LET r == ValidateFiles(data.files, StrLen(data.text))
         IN  IF r.err # Ok
             THEN r.err
             ELSE IF r.total > MAX_CHANNEL_BYTES THEN "PayloadTooLarge" ELSE Ok

\* a validator whose limit is one byte short: total >= MAX_CHANNEL_BYTES
validate_below_maximum(data) ==
    LET r == ValidateFiles(data.files, StrLen(data.text))
    IN  IF r.err # Ok
        THEN r.err
        ELSE IF r.total >= MAX_CHANNEL_BYTES THEN "PayloadTooLarge" ELSE Ok

validate_channel_data(data) ==
    LET r == ValidateFiles(data.files, StrLen(data.text))
    IN  IF r.err # Ok
        THEN r.err
        ELSE IF r.total > MAX_CHANNEL_BYTES THEN "PayloadTooLarge" ELSE Ok

(***************************************************************************)
(* Codec (channel.rs).  A stored string is either a JSON object, given by  *)
(* its members in the order written, or a string that is no JSON object.   *)
(***************************************************************************)
JNull == [t |-> "null"]
JStr(s) == [t |-> "string", v |-> s]
JArr(a) == [t |-> "array", v |-> a]

JsonObject(members) == [fmt |-> "json", members |-> members]

\* an encoder that writes the ChannelData of the record alone
serialize_data_only(record) ==
    JsonObject(<< <<"text", JStr(record.data.text)>>, <<"files", JArr(record.data.files)>> >>)

\* serde_json::to_string of StoredChannel: password_hash, then the flattened
\* ChannelData fields text and files
serialize_channel(record) ==
    JsonObject(<<
        <<"password_hash",
          IF record.password_hash.some THEN JStr(record.password_hash.v) ELSE JNull>>,
        <<"text", JStr(record.data.text)>>,
        <<"files", JArr(record.data.files)>>
    >>)

\* the members of an object named key
Members(obj, key) == SelectSeq(obj.members, LAMBDA m : m[1] = key)

\* serde_json::from_str::<StoredChannel>: Ok with the record, or an error.
\* Every field has #[serde(default)] and a member of another name is
\* skipped; a duplicate field, a value of the wrong type, or an element of
\* "files" without the fields of ChannelFile, is an error.
ParseStoredChannel(raw) ==
    IF raw.fmt # "json"
    THEN [ok |-> FALSE, record |-> StoredChannel(None, ChannelData(EmptyStr, <<>>))]
    ELSE LET ph == Members(raw, "password_hash")
             tx == Members(raw, "text")
             fl == Members(raw, "files")
             wellTyped ==
                 /\ Len(ph) <= 1 /\ Len(tx) <= 1 /\ Len(fl) <= 1
                 /\ Len(ph) = 1 => ph[1][2].t \in {"null", "string"}
                 /\ Len(tx) = 1 => tx[1][2].t = "string"
                 /\ Len(fl) = 1 =>
                        /\ fl[1][2].t = "array"
                        /\ \A i \in DOMAIN fl[1][2].v :
                               DOMAIN fl[1][2].v[i] = DOMAIN ChannelFile("", "", "", 0, EmptyStr)
         IN  IF ~wellTyped
             THEN [ok |-> FALSE, record |-> StoredChannel(None, ChannelData(EmptyStr, <<>>))]
             ELSE [ok |-> TRUE,
                   record |-> StoredChannel(
                       IF Len(ph) = 1 /\ ph[1][2].t = "string" THEN Some(ph[1][2].v) ELSE None,
                       ChannelData(
                           IF Len(tx) = 1 THEN tx[1][2].v ELSE EmptyStr,
                           IF Len(fl) = 1 THEN fl[1][2].v ELSE <<>>))]

\* a decoder that answers the empty record for a string it cannot parse
deserialize_or_default(raw) ==
    LET parsed == ParseStoredChannel(raw)
    IN  IF parsed.ok
        THEN parsed.record
        ELSE StoredChannel(None, ChannelData(EmptyStr, <<>>))

\* a decoder that keeps the password hash and the text and loses the files
deserialize_without_files(raw) ==
    LET parsed == ParseStoredChannel(raw)
    IN  IF parsed.ok
        THEN StoredChannel(parsed.record.password_hash,
                           ChannelData(parsed.record.data.text, <<>>))
        ELSE StoredChannel(None, ChannelData(raw, <<>>))

deserialize_channel(raw) ==
    LET parsed == ParseStoredChannel(raw)
    IN  IF parsed.ok
        THEN parsed.record
        ELSE StoredChannel(None, ChannelData(raw, <<>>))

(***************************************************************************)
(* The store: the commands of the Redis connection the handlers use.  A    *)
(* key is absent, or holds a string value with a remaining TTL in seconds, *)
(* or with no expiry at all (a key written by a SET without EX).           *)
(***************************************************************************)
\* what TTL answers for a key that has no expiry
NoExpiry == -1

\* AppState::channel_key: format!("channel:{id}")
channel_key(id) == <<"channel:", id>>

Keys == {channel_key(id) : id \in Ids}

NoKey == [present |-> FALSE]
Held(value, ttl) == [present |-> TRUE, value |-> value, ttl |-> ttl]

\* GET key
RedisGet(s, key) == IF s[key].present THEN Some(s[key].value) ELSE None

\* TTL key: the remaining seconds, -1 (the TTL held) for a key without
\* expiry, -2 when the key does not exist
RedisTtl(s, key) == IF s[key].present THEN s[key].ttl ELSE -2

\* an EXPIRE that resets the TTL of every key held
RedisExpireAll(s, key, seconds) ==
    [k \in Keys |-> IF s[k].present THEN Held(s[k].value, seconds) ELSE s[k]]

\* an EXPIRE that leaves an empty value under a key that does not exist
RedisExpireCreates(s, key, seconds) ==
    [s EXCEPT ![key] = Held(IF s[key].present THEN s[key].value ELSE EmptyStr, seconds)]

\* EXPIRE key seconds: no effect on a key that does not exist
RedisExpire(s, key, seconds) ==
    IF s[key].present THEN [s EXCEPT ![key] = Held(s[key].value, seconds)] ELSE s

\* a SET without EX: the key is left without expiry
RedisSetPersist(s, key, value, seconds) == [s EXCEPT ![key] = Held(value, NoExpiry)]

\* a SET EX that writes only under a key that does not exist (NX)
RedisSetExNx(s, key, value, seconds) ==
    IF s[key].present THEN s ELSE [s EXCEPT ![key] = Held(value, seconds)]

\* SET key value EX seconds
RedisSetEx(s, key, value, seconds) == [s EXCEPT ![key] = Held(value, seconds)]

\* a clock that counts down and never removes a key
RedisTickKeeps(s) ==
    [k \in Keys |->
        IF s[k].present /\ s[k].ttl > 1 THEN Held(s[k].value, s[k].ttl - 1) ELSE s[k]]

\* one second of the store's clock: every TTL goes down, a key at its last
\* second is removed, a key without expiry stays
RedisTick(s) ==
    [k \in Keys |->
        IF s[k].present /\ s[k].ttl = NoExpiry THEN s[k]
        ELSE IF s[k].present /\ s[k].ttl > 1 THEN Held(s[k].value, s[k].ttl - 1)
        ELSE NoKey]

\* AppState::ttl_seconds / channel_ttl().as_secs()
ttl_seconds == ChannelTtl

(***************************************************************************)
(* Requests and responses                                                  *)
(***************************************************************************)
NoData == ChannelData(EmptyStr, <<>>)

\* the locals a suspended handler holds
NoReq ==
    [op |-> "none", id |-> "", provided |-> None, data |-> NoData,
     serialized |-> EmptyStr, ttl |-> 0, seen |-> None]

\* data: the handler's ChannelData (fetch_channel: record.data as read;
\* update_channel: the request's); serialized: update_channel's string to
\* write; ttl: fetch_channel's ttl_seconds; seen: what lastWrite held for the
\* key at the handler's GET
Locals(op, id, provided, data, serialized, ttl, seen) ==
    [op |-> op, id |-> id, provided |-> provided, data |-> data,
     serialized |-> serialized, ttl |-> ttl, seen |-> seen]

\* the variants of AppError (error.rs)
AppErrors ==
    {"BindAddress", "Redis", "Io", "ChannelNotFound", "InvalidChannelPassword",
     "PayloadTooLarge", "InvalidFileData", "Serialization"}

\* a mapping that answers a wrong password like a missing channel
into_response_hiding(error) ==
    IF error \in {"ChannelNotFound", "InvalidChannelPassword"} THEN 404
    ELSE IF error \in {"PayloadTooLarge", "InvalidFileData"} THEN 400
    ELSE 500

\* AppError::into_response (error.rs): the status code
into_response(error) ==
    IF error = "ChannelNotFound" THEN 404
    ELSE IF error = "InvalidChannelPassword" THEN 401
    ELSE IF error \in {"PayloadTooLarge", "InvalidFileData"} THEN 400
    ELSE 500

NoResp ==
    [op |-> "none", id |-> "", result |-> "none", text |-> EmptyStr,
     files |-> <<>>, ttl_seconds |-> 0, password |-> None, status |-> 0]

\* Err(AppError): the status code, and no body but the error message
ErrResp(op, id, error) ==
    [op |-> op, id |-> id, result |-> error, text |-> EmptyStr,
     files |-> <<>>, ttl_seconds |-> 0, password |-> None, status |-> into_response(error)]

\* CreateChannelResponse {id, password, ttl_seconds}, 201
CreateChannelResponse(id, password, ttl) ==
    [op |-> "create", id |-> id, result |-> Ok, text |-> EmptyStr,
     files |-> <<>>, ttl_seconds |-> ttl, password |-> Some(password), status |-> 201]

\* ChannelPayloadResponse {id, text, files, ttl_seconds}, 200
ChannelPayloadResponse(id, data, ttl) ==
    [op |-> "fetch", id |-> id, result |-> Ok, text |-> data.text,
     files |-> data.files, ttl_seconds |-> ttl, password |-> None, status |-> 200]

\* StatusCode::NO_CONTENT, 204
UpdateResponse(id) ==
    [op |-> "update", id |-> id, result |-> Ok, text |-> EmptyStr,
     files |-> <<>>, ttl_seconds |-> 0, password |-> None, status |-> 204]

\* the request of handler p ends with response r; resp is the response the
\* last step sent, if it sent one
Reply(p, r) ==
    /\ pc' = [pc EXCEPT ![p] = "idle"]
    /\ req' = [req EXCEPT ![p] = NoReq]
    /\ resp' = r

\* handler p is suspended at its next store command
Suspend(p, at, locals) ==
    /\ pc' = [pc EXCEPT ![p] = at]
    /\ req' = [req EXCEPT ![p] = locals]
    /\ resp' = NoResp

Accept(p) == pc[p] = "idle" /\ nreq < MaxRequests /\ nreq' = nreq + 1

(***************************************************************************)
(* History.  step: what the last step was: the handler, the store command  *)
(* it issued and whether the store answered it, the request's identifier,  *)
(* password header and body, what lastWrite held for the key at the        *)
(* request's GET, whether the key existed before the step, what lastWrite  *)
(* held for the key before the step (over), whether the step left the keys *)
(* of the other identifiers as they were (apart), whether it left every    *)
(* key's existence and value as they were (kept), and whether it left the  *)
(* whole store as it was (unchanged).                                      *)
(* lastWrite: for each key, the latest SET EX that the key has not         *)
(* outlived: the data written, who wrote it, and the password hash the     *)
(* writer holds for the record.  madeHash: the password hash of the latest *)
(* Create of the key.  Both are forgotten when the key expires.            *)
(***************************************************************************)
NoStep ==
    [op |-> "none", cmd |-> "none", answered |-> FALSE, id |-> "", provided |-> None,
     body |-> NoData, seen |-> None, found |-> FALSE, over |-> None,
     apart |-> TRUE, kept |-> TRUE, unchanged |-> TRUE]

\* to be used once store' is set
Step(op, cmd, answered, id, provided, body, seen) ==
    [op |-> op, cmd |-> cmd, answered |-> answered, id |-> id, provided |-> provided,
     body |-> body, seen |-> seen, found |-> store[channel_key(id)].present,
     over |-> lastWrite[channel_key(id)],
     apart |-> (\A k \in Keys \ {channel_key(id)} : store'[k] = store[k]),
     kept |-> (\A k \in Keys :
                  /\ store'[k].present = store[k].present
                  /\ store[k].present => store'[k].value = store[k].value),
     unchanged |-> (store' = store)]

\* data: the request's ChannelData; hash: create_channel: the hash of the
\* password it made; update_channel: the hash lastWrite held at its GET
Written(data, by, hash) == [data |-> data, by |-> by, hash |-> hash]

Forget(h, s) == [k \in Keys |-> IF s[k].present THEN h[k] ELSE None]

\* the last application of a function of channel.rs on its own: the
\* function, its arguments, its result
NoCall == [fn |-> "none", args |-> <<>>, out |-> <<>>]
Call(fn, args, out) == [fn |-> fn, args |-> args, out |-> out]

(***************************************************************************)
(* create_channel (handlers.rs): one store command, SET EX.                *)
(***************************************************************************)
\* the record of the earlier build's create_channel: no password hash
NewRecordUnprotected(password, data) == StoredChannel(None, data)

\* StoredChannel { password_hash: Some(hash_channel_password(&password)), data }
NewRecord(password, data) == StoredChannel(Some(hash_channel_password(password)), data)

create_channel(p, id, password, payload, setOk) ==
    LET data == ChannelData(IF payload.text.some THEN payload.text.v ELSE EmptyStr,
                            payload.files)
        valid == validate_channel_data(data)
        record == NewRecord(password, data)
        serialized == serialize_channel(record)
        key == channel_key(id)
    IN  /\ Accept(p)
        /\ UNCHANGED call
        /\ IF valid # Ok
           THEN /\ UNCHANGED <<store, madeHash, lastWrite>>
                /\ Reply(p, ErrResp("create", id, valid))
                /\ step' = Step("create", "none", FALSE, id, None, data, None)
           ELSE IF ~setOk
           THEN /\ UNCHANGED <<store, madeHash, lastWrite>>
                /\ Reply(p, ErrResp("create", id, "Redis"))
                /\ step' = Step("create", "SET", FALSE, id, None, data, None)
           ELSE /\ store' = RedisSetEx(store, key, serialized, ttl_seconds)
                /\ madeHash' = [madeHash EXCEPT ![key] = Some(record.password_hash)]
                /\ lastWrite' = [lastWrite EXCEPT ![key] =
                       Some(Written(data, "create", record.password_hash))]
                /\ Reply(p, CreateChannelResponse(id, password, ChannelTtl))
                /\ step' = Step("create", "SET", TRUE, id, None, data, None)

(***************************************************************************)
(* The gate fetch_channel and update_channel both start with: the key must *)
(* exist (ChannelNotFound), then the password must verify against the      *)
(* record read (InvalidChannelPassword).                                   *)
(***************************************************************************)
\* the gate of the earlier build's update_channel: existence alone
GateExistenceOnly(raw, provided) == IF ~raw.some THEN "ChannelNotFound" ELSE Ok

\* a gate that looks at the header before it looks the key up
GatePasswordFirst(raw, provided) ==
    IF ~provided.some
    THEN "InvalidChannelPassword"
    ELSE IF ~raw.some
         THEN "ChannelNotFound"
         ELSE IF ~verify_channel_password(deserialize_channel(raw.v).password_hash, provided)
              THEN "InvalidChannelPassword"
              ELSE Ok

Gate(raw, provided) ==
    IF ~raw.some
    THEN "ChannelNotFound"
    ELSE IF ~verify_channel_password(deserialize_channel(raw.v).password_hash, provided)
         THEN "InvalidChannelPassword"
         ELSE Ok

(***************************************************************************)
(* fetch_channel (handlers.rs): GET, then TTL, then EXPIRE (refresh_ttl).  *)
(***************************************************************************)
FetchGet(p, id, provided, getOk) ==
    LET key == channel_key(id)
        raw == RedisGet(store, key)
        gate == Gate(raw, provided)
        record == deserialize_channel(raw.v)
    IN  /\ Accept(p)
        /\ UNCHANGED <<store, madeHash, lastWrite, call>>
        /\ step' = Step("fetch", "GET", getOk, id, provided, NoData, lastWrite[key])
        /\ IF ~getOk
           THEN Reply(p, ErrResp("fetch", id, "Redis"))
           ELSE IF gate # Ok
           THEN Reply(p, ErrResp("fetch", id, gate))
           ELSE Suspend(p, "fetch_ttl",
                        Locals("fetch", id, provided, record.data, EmptyStr, 0,
                               lastWrite[key]))

\* conn.ttl(&key).await.unwrap_or(state.channel_ttl().as_secs() as i64)
ReadTtl(s, key, ttlOk) == IF ttlOk THEN RedisTtl(s, key) ELSE ChannelTtl

FetchTtl(p, ttlOk) ==
    LET key == channel_key(req[p].id)
    IN  /\ pc[p] = "fetch_ttl"
        /\ UNCHANGED <<store, nreq, madeHash, lastWrite, call>>
        /\ step' = Step("fetch", "TTL", ttlOk, req[p].id, req[p].provided, NoData, req[p].seen)
        /\ Suspend(p, "fetch_expire", [req[p] EXCEPT !.ttl = ReadTtl(store, key, ttlOk)])

\* a refresh that writes the record back, serialized anew, with the full TTL
refresh_by_rewrite(s, key) ==
    IF s[key].present
    THEN RedisSetEx(s, key, serialize_channel(deserialize_channel(s[key].value)), ttl_seconds)
    ELSE s

\* a refresh that sends no EXPIRE
refresh_nothing(s, key) == s

\* refresh_ttl (state.rs): EXPIRE key ttl_seconds
refresh_ttl(s, key) == RedisExpire(s, key, ttl_seconds)

FetchExpire(p, expireOk) ==
    LET key == channel_key(req[p].id)
    IN  /\ pc[p] = "fetch_expire"
        /\ UNCHANGED <<nreq, madeHash, lastWrite, call>>
        /\ store' = IF expireOk THEN refresh_ttl(store, key) ELSE store
        /\ step' = Step("fetch", "EXPIRE", expireOk, req[p].id, req[p].provided, NoData,
                        req[p].seen)
        /\ IF ~expireOk
           THEN Reply(p, ErrResp("fetch", req[p].id, "Redis"))
           ELSE Reply(p, ChannelPayloadResponse(req[p].id, req[p].data, req[p].ttl))

(***************************************************************************)
(* update_channel (handlers.rs): GET, then SET EX.                         *)
(***************************************************************************)
\* an update that builds a fresh record, without the hash of the one it read
ReplaceRecord(record, data) == StoredChannel(None, data)

\* an update that patches the text into the record read and keeps its files
ReplaceText(record, data) ==
    StoredChannel(record.password_hash, ChannelData(data.text, record.data.files))

\* record.data = data: the record read, with the request's data in place of
\* its own
ReplaceData(record, data) == StoredChannel(record.password_hash, data)

UpdateGet(p, id, provided, payload, getOk) ==
    LET key == channel_key(id)
        raw == RedisGet(store, key)
        gate == Gate(raw, provided)
        record == deserialize_channel(raw.v)
        data == ChannelData(payload.text, payload.files)
        valid == validate_channel_data(data)
        serialized == serialize_channel(ReplaceData(record, data))
    IN  /\ Accept(p)
        /\ UNCHANGED <<store, madeHash, lastWrite, call>>
        /\ step' = Step("update", "GET", getOk, id, provided, data, lastWrite[key])
        /\ IF ~getOk
           THEN Reply(p, ErrResp("update", id, "Redis"))
           ELSE IF gate # Ok
           THEN Reply(p, ErrResp("update", id, gate))
           ELSE IF valid # Ok
           THEN Reply(p, ErrResp("update", id, valid))
           ELSE Suspend(p, "update_set",
                        Locals("update", id, provided, data, serialized, 0, lastWrite[key]))

UpdateSet(p, setOk) ==
    LET key == channel_key(req[p].id)
    IN  /\ pc[p] = "update_set"
        /\ UNCHANGED <<nreq, madeHash, call>>
        /\ store' = IF setOk THEN RedisSetEx(store, key, req[p].serialized, ttl_seconds)
                             ELSE store
        /\ lastWrite' = IF setOk
                        THEN [lastWrite EXCEPT ![key] =
                                 Some(Written(req[p].data, "update", req[p].seen.v.hash))]
                        ELSE lastWrite
        /\ step' = Step("update", "SET", setOk, req[p].id, req[p].provided, req[p].data,
                        req[p].seen)
        /\ IF ~setOk
           THEN Reply(p, ErrResp("update", req[p].id, "Redis"))
           ELSE Reply(p, UpdateResponse(req[p].id))

(***************************************************************************)
(* The store's clock                                                       *)
(***************************************************************************)
Tick ==
    /\ \E k \in Keys : store[k].present
    /\ store' = RedisTick(store)
    /\ madeHash' = Forget(madeHash, store')
    /\ lastWrite' = Forget(lastWrite, store')
    /\ resp' = NoResp
    /\ step' = NoStep
    /\ UNCHANGED <<pc, req, nreq, call>>

(***************************************************************************)
(* Initial states: the service starts on a store that is empty, or holds   *)
(* a channel that an earlier run of the service created with password      *)
(* "pw1", or holds a channel left by the earlier build of the service      *)
(* (lib.rs), whose create_channel writes the ChannelData alone,            *)
(* {"text":..,"files":..}.  Every channel was written with SET EX.         *)
(***************************************************************************)
\* lib.rs: serde_json::to_string of ChannelData
serialize_legacy(data) ==
    JsonObject(<< <<"text", JStr(data.text)>>, <<"files", JArr(data.files)>> >>)

FirstKey == channel_key("a1b2c3d4")

EmptyStore == [k \in Keys |-> NoKey]

\* the records that may be in the store at the start, each with its stored form
InitRecords ==
    { [record |-> StoredChannel(None, DataHello), raw |-> serialize_legacy(DataHello)],
      [record |-> StoredChannel(Some(hash_channel_password("pw1")), DataHello),
       raw |-> serialize_channel(StoredChannel(Some(hash_channel_password("pw1")), DataHello))] }

Init ==
    /\ pc = [p \in Procs |-> "idle"]
    /\ req = [p \in Procs |-> NoReq]
    /\ resp = NoResp
    /\ step = NoStep
    /\ call = NoCall
    /\ nreq = 0
    /\ \/ /\ store = EmptyStore
          /\ madeHash = [k \in Keys |-> None]
          /\ lastWrite = [k \in Keys |-> None]
       \/ \E r \in InitRecords :
          /\ store = [EmptyStore EXCEPT ![FirstKey] = Held(r.raw, ChannelTtl)]
          /\ madeHash = [k \in Keys |-> IF k = FirstKey THEN Some(r.record.password_hash)
                                                     ELSE None]
          /\ lastWrite = [k \in Keys |-> IF k = FirstKey
                                          THEN Some(Written(r.record.data, "create",
                                                            r.record.password_hash))
                                          ELSE None]

Next ==
    \/ \E p \in Procs, id \in Ids, password \in GenPasswords, payload \in CreatePayloads,
          setOk \in BOOLEAN :
            create_channel(p, id, password, payload, setOk)
    \/ \E p \in Procs, id \in Ids, provided \in ProvidedPasswords, getOk \in BOOLEAN :
            FetchGet(p, id, provided, getOk)
    \/ \E p \in Procs, ttlOk \in BOOLEAN : FetchTtl(p, ttlOk)
    \/ \E p \in Procs, expireOk \in BOOLEAN : FetchExpire(p, expireOk)
    \/ \E p \in Procs, id \in Ids, provided \in ProvidedPasswords, payload \in UpdatePayloads,
          getOk \in BOOLEAN :
            UpdateGet(p, id, provided, payload, getOk)
    \/ \E p \in Procs, setOk \in BOOLEAN : UpdateSet(p, setOk)
    \/ Tick

Spec == Init /\ [][Next]_vars

\* time passes: the store's clock keeps ticking while a key is held
FairSpec == Spec /\ WF_vars(Tick)

(***************************************************************************)
(* The functions of channel.rs applied on their own.  Each step applies    *)
(* one function to arguments drawn from the sets below and records the     *)
(* application in call; no request is served and the store stays empty.    *)
(***************************************************************************)
\* passwords: the generated ones, those of the tests of channel.rs, the
\* empty one
UnitPasswords == GenPasswords \cup {"correct horse", "wrong", ""}

\* stored_hash: Option<&str>
UnitHashes == {None, Some(EmptyHash)} \cup {Some(hash_channel_password(p)) : p \in UnitPasswords}

\* provided: Option<&str>
UnitProvided == {None} \cup {Some(p) : p \in UnitPasswords}

\* ChannelData.text, by byte length: empty, short, around the maximum, and
\* near the largest usize
UnitTexts ==
    { EmptyStr, Str("hello", 5),
      Str("max-4", MAX_CHANNEL_BYTES - 4), Str("max-3", MAX_CHANNEL_BYTES - 3),
      Str("max", MAX_CHANNEL_BYTES), Str("max+1", MAX_CHANNEL_BYTES + 1),
      Str("usize-2", UsizeMax - 2) }

\* not base64, and declared larger than the maximum
FileBadBig ==
    ChannelFile("f4", "d.bin", "application/octet-stream", MAX_CHANNEL_BYTES + 1, NotB64("%%"))

UnitFiles == {FileA, FileB, FileBad, FileBadBig}

\* ChannelData.files: every list of at most two files
UnitFileLists ==
    {<<>>} \cup {<<f>> : f \in UnitFiles} \cup {<<f, g>> : f \in UnitFiles, g \in UnitFiles}

\* a text that is itself a JSON document
TextJson == serialize_legacy(DataHello)

\* StoredChannel values
UnitRecords ==
    { StoredChannel(h, ChannelData(t, fl)) :
        h \in {None, Some(EmptyHash), Some(hash_channel_password("pw1"))},
        t \in {EmptyStr, Str("hello", 5), TextJson},
        fl \in {<<>>, <<FileA>>, <<FileA, FileB>>, <<FileB, FileA>>, <<FileA, FileA>>} }

\* a JSON number, and an element of "files" that lacks fields of ChannelFile
JNum == [t |-> "number"]
HalfFile == [id |-> "f9", name |-> "x"]

\* stored strings: no JSON at all, JSON that is no object, objects that are
\* no StoredChannel, objects that are one
UnitRaws ==
    { Str("plain unstructured text", 23), EmptyStr, Str("null", 4), Str("[1,2]", 5),
      JsonObject(<< <<"text", JNull>> >>),
      JsonObject(<< <<"text", JStr(Str("a", 1))>>, <<"text", JStr(Str("b", 1))>> >>),
      JsonObject(<< <<"password_hash", JNum>>, <<"text", JStr(Str("a", 1))>> >>),
      JsonObject(<< <<"text", JStr(Str("a", 1))>>, <<"files", JStr(Str("none", 4))>> >>),
      JsonObject(<< <<"text", JStr(Str("a", 1))>>, <<"files", JArr(<<FileA, HalfFile>>)>> >>),
      JsonObject(<<>>),
      JsonObject(<< <<"other", JNum>>, <<"text", JStr(Str("a", 1))>> >>),
      JsonObject(<< <<"files", JArr(<<FileB>>)>>, <<"password_hash", JStr(EmptyHash)>> >>),
      serialize_legacy(DataNew),
      serialize_channel(StoredChannel(Some(hash_channel_password("pw2")), DataNew)) }

HashCall(password) ==
    /\ call' = Call("hash_channel_password", <<password>>, hash_channel_password(password))
    /\ UNCHANGED <<store, pc, req, resp, nreq, step, madeHash, lastWrite>>

VerifyCall(stored_hash, provided) ==
    /\ call' = Call("verify_channel_password", <<stored_hash, provided>>,
                    verify_channel_password(stored_hash, provided))
    /\ UNCHANGED <<store, pc, req, resp, nreq, step, madeHash, lastWrite>>

ValidateCall(data) ==
    /\ call' = Call("validate_channel_data", <<data>>, validate_channel_data(data))
    /\ UNCHANGED <<store, pc, req, resp, nreq, step, madeHash, lastWrite>>

DeserializeCall(raw) ==
    /\ call' = Call("deserialize_channel", <<raw>>, deserialize_channel(raw))
    /\ UNCHANGED <<store, pc, req, resp, nreq, step, madeHash, lastWrite>>

\* the gate of fetch_channel and update_channel on what GET returned
GateCall(raw, provided) ==
    /\ call' = Call("gate", <<raw, provided>>, Gate(raw, provided))
    /\ UNCHANGED <<store, pc, req, resp, nreq, step, madeHash, lastWrite>>

\* serialize_channel, then deserialize_channel of the string it returned
RoundTripCall(record) ==
    /\ call' = Call("round_trip", <<record, serialize_channel(record)>>,
                    deserialize_channel(serialize_channel(record)))
    /\ UNCHANGED <<store, pc, req, resp, nreq, step, madeHash, lastWrite>>

UnitsInit ==
    /\ pc = [p \in Procs |-> "idle"]
    /\ req = [p \in Procs |-> NoReq]
    /\ resp = NoResp
    /\ step = NoStep
    /\ call = NoCall
    /\ nreq = 0
    /\ store = EmptyStore
    /\ madeHash = [k \in Keys |-> None]
    /\ lastWrite = [k \in Keys |-> None]

UnitsNext ==
    \/ \E password \in UnitPasswords : HashCall(password)
    \/ \E stored_hash \in UnitHashes, provided \in UnitProvided :
            VerifyCall(stored_hash, provided)
    \/ \E text \in UnitTexts, files \in UnitFileLists : ValidateCall(ChannelData(text, files))
    \/ \E raw \in UnitRaws : DeserializeCall(raw)
    \/ \E raw \in UnitRaws, held \in BOOLEAN, provided \in UnitProvided :
            GateCall(IF held THEN Some(raw) ELSE None, provided)
    \/ \E record \in UnitRecords : RoundTripCall(record)

Units == UnitsInit /\ [][UnitsNext]_vars

(***************************************************************************)
(* Properties                                                              *)
(***************************************************************************)
\* the record the store holds under key k
StoredRecord(k) == deserialize_channel(store[k].value)

\* the key of the request the last step belongs to
StepKey == channel_key(step.id)

\* the last step was the GET of handler op, and the store answered it
AtGet(op) == step.op = op /\ step.cmd = "GET" /\ step.answered

\* key k exists and its record carries a non-empty password hash
Protected(k) ==
    /\ store[k].present
    /\ StoredRecord(k).password_hash.some
    /\ StoredRecord(k).password_hash.v # EmptyHash

\* the header is missing, or does not hash to the hash stored under k
Mismatch(k, provided) ==
    \/ ~provided.some
    \/ hash_channel_password(provided.v) # StoredRecord(k).password_hash.v

\* the response is an error without any of a channel's contents
BareError(r, op, id, error) ==
    /\ r.op = op /\ r.id = id /\ r.result = error
    /\ r.text = EmptyStr /\ r.files = <<>> /\ r.password = None

\* the response of the last step reports success
Succeeded(op) == resp.op = op /\ resp.result = Ok

\* key k exists with the full configured TTL
Fresh(k) == store[k].present /\ store[k].ttl = ChannelTtl

\* C1: a Fetch of an existing password-protected channel with a missing or
\* wrong password fails with InvalidChannelPassword, returns none of the
\* channel's text or files, and leaves the stored value and the key's
\* remaining TTL as they were (no EXPIRE, no SET): the GET step leaves the
\* store as it was and, where the record then in the store is protected and
\* the header does not open it, answers the bare error.
C1_FetchWrongPassword ==
    AtGet("fetch") =>
        /\ step.unchanged
        /\ (Protected(StepKey) /\ Mismatch(StepKey, step.provided))
           => BareError(resp, "fetch", step.id, "InvalidChannelPassword")

\* C1 witness: a Fetch with a wrong password has just been refused, and the
\* key still has the shortened TTL it had before
C1_Witness ==
    /\ AtGet("fetch") /\ resp.result = "InvalidChannelPassword"
    /\ step.provided.some
    /\ Protected(StepKey)
    /\ store[StepKey].ttl < ChannelTtl

\* C2: an Update of an existing password-protected channel with a missing or
\* wrong password fails with InvalidChannelPassword and changes nothing in
\* the store: the value and the remaining TTL are as before.
C2_UpdateWrongPassword ==
    AtGet("update") =>
        /\ step.unchanged
        /\ (Protected(StepKey) /\ Mismatch(StepKey, step.provided))
           => BareError(resp, "update", step.id, "InvalidChannelPassword")

\* C2 witness: an Update without the password header has just been refused
\* on a protected channel whose TTL is not the full one
C2_Witness ==
    /\ AtGet("update") /\ resp.result = "InvalidChannelPassword"
    /\ ~step.provided.some
    /\ Protected(StepKey)
    /\ store[StepKey].ttl < ChannelTtl

\* C3: Update never creates a channel: an Update that finds its key absent
\* fails with ChannelNotFound, and the SET of an Update never brings into
\* existence a key that was absent just before it.
C3_UpdateNeverCreates ==
    /\ (AtGet("update") /\ ~step.found)
       => BareError(resp, "update", step.id, "ChannelNotFound")
    /\ (step.op = "update" /\ step.cmd = "SET" /\ step.answered) => step.found

\* C4 as claimed: right after every successful Create, Fetch and Update the
\* channel's key exists with remaining TTL equal to the configured TTL.
C4_SlidingExpiration ==
    \A op \in {"create", "fetch", "update"} :
        Succeeded(op) => Fresh(channel_key(resp.id))

\* C4 as amended: right after every successful Create and Update the key
\* exists with the full TTL; right after a successful Fetch the key has the
\* full TTL if it still existed at the Fetch's EXPIRE, and a key that
\* expired between the Fetch's GET and its EXPIRE stays absent.
C4_SlidingExpirationAmended ==
    /\ \A op \in {"create", "update"} : Succeeded(op) => Fresh(channel_key(resp.id))
    /\ Succeeded("fetch") =>
          IF step.found THEN Fresh(channel_key(resp.id))
                        ELSE ~store[channel_key(resp.id)].present

\* C4 witness: a successful Fetch that read a shortened TTL has left the key
\* with the full one
C4_Witness ==
    /\ Succeeded("fetch")
    /\ resp.ttl_seconds > 0 /\ resp.ttl_seconds < ChannelTtl
    /\ ~step.unchanged
    /\ Fresh(channel_key(resp.id))

\* C5 as claimed: the stored password hash of a channel is always the hash
\* written by the latest Create of its key, whatever Updates came after.
C5_HashOfCreate ==
    \A k \in Keys :
        (store[k].present /\ madeHash[k].some)
        => StoredRecord(k).password_hash = madeHash[k].v

\* C5 as amended: every stored record is, whole, the record of its latest
\* write: its ChannelData is the text and files of that request, and its
\* password hash is the one the writing Update read at its GET (the one the
\* Create made, when a Create wrote last); an Update adds, removes or
\* changes no hash.
C5_UpdatePreservesHash ==
    \A k \in Keys :
        store[k].present
        => /\ lastWrite[k].some
           /\ StoredRecord(k) = StoredChannel(lastWrite[k].v.hash, lastWrite[k].v.data)
           /\ (lastWrite[k].v.by = "create" /\ madeHash[k].some)
              => StoredRecord(k).password_hash = madeHash[k].v

\* C5 witness: an Update has just replaced the data of a protected channel
C5_Witness ==
    /\ Succeeded("update")
    /\ Protected(StepKey)
    /\ lastWrite[StepKey].v.by = "update"
    /\ step.seen.v.data # StoredRecord(StepKey).data
    /\ step.seen.v.hash = StoredRecord(StepKey).password_hash

\* C6: the ttl_seconds of a successful Fetch response is never negative (and
\* never above the configured TTL).
C6_TtlNeverNegative ==
    Succeeded("fetch") => (resp.ttl_seconds >= 0 /\ resp.ttl_seconds <= ChannelTtl)

\* the names of the members of a stored JSON object, in order
MemberNames(raw) == [i \in 1..Len(raw.members) |-> raw.members[i][1]]

\* the history says the key was last written by a Create that protected it
MadeProtected(seen) == seen.some /\ seen.v.by = "create" /\ seen.v.hash.some

\* the header carries a password that hashes to hash
Opens(provided, hash) == provided.some /\ hash_channel_password(provided.v) = hash

\* C7: the record a Create stores carries the hash of the password the Create
\* returns, and nothing else of the password; while that record is the
\* key's latest write, a Fetch without a password (or with another one) is
\* refused with InvalidChannelPassword, and a Fetch with the returned
\* password passes the gate and, once its EXPIRE is answered, succeeds.
C7_PasswordGate ==
    /\ Succeeded("create") =>
          LET k == channel_key(resp.id)
              hash == hash_channel_password(resp.password.v)
          IN  /\ store[k].present
              /\ store[k].value.fmt = "json"
              /\ MemberNames(store[k].value) = <<"password_hash", "text", "files">>
              /\ store[k].value.members[1][2] = JStr(hash)
              /\ StoredRecord(k).password_hash = Some(hash)
              /\ madeHash[k] = Some(Some(hash))
    /\ (AtGet("fetch") /\ MadeProtected(step.seen)) =>
          IF Opens(step.provided, step.seen.v.hash.v)
          THEN resp = NoResp /\ \E p \in Procs : pc[p] = "fetch_ttl" /\ req[p].id = step.id
          ELSE resp.result = "InvalidChannelPassword"
    /\ (step.op = "fetch" /\ step.cmd = "EXPIRE" /\ step.answered) =>
          (Succeeded("fetch") /\ resp.id = step.id)

\* C7 witness: a Fetch with the password has just succeeded on a channel
\* that a Create of this run made
C7_Witness ==
    /\ Succeeded("fetch")
    /\ MadeProtected(step.seen)
    /\ step.seen.v.data = ChannelData(EmptyStr, <<FileA>>)
    /\ Opens(step.provided, step.seen.v.hash.v)
    /\ nreq = 2

\* C8: a successful Fetch returns exactly the text and the files, in order,
\* of the latest Create or Update write that the key had not outlived when
\* the Fetch read it; a Fetch whose password does not open the hash that
\* write carried is refused, after an Update as after a Create.
C8_ReadYourWrites ==
    /\ Succeeded("fetch") =>
          /\ step.seen.some
          /\ resp.text = step.seen.v.data.text
          /\ resp.files = step.seen.v.data.files
    /\ (AtGet("fetch") /\ step.seen.some /\ step.seen.v.hash.some) =>
          IF Opens(step.provided, step.seen.v.hash.v)
          THEN resp = NoResp
          ELSE resp.result = "InvalidChannelPassword"
    /\ \A p \in Procs :
          (req[p].op = "fetch" /\ req[p].seen.v.hash.some)
          => Opens(req[p].provided, req[p].seen.v.hash.v)

\* C8 witness: a Fetch with the password has just returned the text and the
\* two files of the Update that wrote a protected channel last
C8_Witness ==
    /\ Succeeded("fetch")
    /\ step.seen.v.by = "update"
    /\ step.seen.v.hash.some
    /\ resp.text = DataNew.text
    /\ resp.files = <<FileB, FileA>>

\* C9: a Fetch or an Update whose key is absent fails with ChannelNotFound
\* whatever password it carries and leaves the store as it was; no request is
\* answered InvalidChannelPassword for a key that is absent.
C9_NotFoundFirst ==
    /\ \A op \in {"fetch", "update"} :
          (AtGet(op) /\ ~step.found)
          => (BareError(resp, op, step.id, "ChannelNotFound") /\ step.unchanged)
    /\ resp.result = "InvalidChannelPassword" => step.found

\* C9 witness: an Update that carried a password has just been answered
\* ChannelNotFound for a key that expired
C9_Witness ==
    /\ AtGet("update") /\ resp.result = "ChannelNotFound"
    /\ step.provided.some
    /\ StepKey = FirstKey
    /\ ~store[FirstKey].present
    /\ nreq = 1

\* the validation error each invalid request body of the model must get
ExpectedError(data) ==
    IF data = DataOver THEN "PayloadTooLarge"
    ELSE IF data = DataBadFile THEN "InvalidFileData"
    ELSE Ok

\* C10: a Create or an Update whose new ChannelData fails validation returns
\* the validation error (PayloadTooLarge, InvalidFileData) and writes
\* nothing: no store command is sent by the Create and none after the GET by
\* the Update, the store is as before, so a Create leaves no key it did not
\* find and an Update leaves the record's value and remaining TTL.
C10_InvalidNeverWritten ==
    /\ (step.op = "create" /\ ExpectedError(step.body) # Ok)
       => /\ BareError(resp, "create", step.id, ExpectedError(step.body))
          /\ step.cmd = "none"
          /\ step.unchanged
          /\ store[StepKey].present = step.found
    /\ (AtGet("update") /\ ExpectedError(step.body) # Ok) =>
          /\ step.unchanged
          /\ (step.found /\ ~(Protected(StepKey) /\ Mismatch(StepKey, step.provided)))
             => BareError(resp, "update", step.id, ExpectedError(step.body))
    /\ \A p \in Procs : pc[p] = "update_set" => ExpectedError(req[p].data) = Ok
    /\ step.cmd = "SET" => ExpectedError(step.body) = Ok

\* C10 witness: an Update with the right password and a body one byte over
\* the limit has just been refused, on a channel that keeps its shortened TTL
C10_Witness ==
    /\ AtGet("update") /\ resp.result = "PayloadTooLarge"
    /\ step.provided.some
    /\ Protected(StepKey)
    /\ store[StepKey].ttl < ChannelTtl

RECURSIVE DecodedBytes(_)
\* the decoded bytes of the files of a list, all of them valid base64
DecodedBytes(files) ==
    IF files = <<>> THEN 0
    ELSE Head(files).data_base64.n + DecodedBytes(Tail(files))

\* every file of the data is valid base64
Decodable(data) == \A i \in DOMAIN data.files : data.files[i].data_base64.b64

\* the aggregate size: the bytes of the text and the decoded bytes of the files
AggregateSize(data) == data.text.n + DecodedBytes(data.files)

\* the last step sent the body of a Create or an Update to the validator
Validated ==
    \/ step.op = "create"
    \/ /\ AtGet("update") /\ step.found
       /\ ~(Protected(StepKey) /\ Mismatch(StepKey, step.provided))

\* C11: every record in the store has an aggregate size (bytes of the text
\* plus decoded bytes of every file) of at most MAX_CHANNEL_BYTES; a body
\* that totals exactly the maximum is never refused as PayloadTooLarge, and
\* a body of decodable files that totals more is, as soon as the validator
\* sees it.
C11_SizeWithinMaximum ==
    /\ \A k \in Keys :
          store[k].present
          => /\ Decodable(StoredRecord(k).data)
             /\ AggregateSize(StoredRecord(k).data) <= MAX_CHANNEL_BYTES
    /\ (Validated /\ Decodable(step.body)) =>
          IF AggregateSize(step.body) <= MAX_CHANNEL_BYTES
          THEN resp.result \notin {"PayloadTooLarge", "InvalidFileData"}
          ELSE resp.result = "PayloadTooLarge"

\* C11 witness: an Update has just written a record of exactly the maximum
C11_Witness ==
    /\ Succeeded("update")
    /\ store[StepKey].present
    /\ AggregateSize(StoredRecord(StepKey).data) = MAX_CHANNEL_BYTES
    /\ AggregateSize(step.seen.v.data) < MAX_CHANNEL_BYTES

\* the place of the first file of the list that is not valid base64, 0 if
\* every file is
FirstUndecodable(files) ==
    IF \A i \in DOMAIN files : files[i].data_base64.b64
    THEN 0
    ELSE CHOOSE i \in DOMAIN files :
            /\ ~files[i].data_base64.b64
            /\ \A j \in 1..(i - 1) : files[j].data_base64.b64

\* C12: validate_channel_data answers InvalidFileData for a ChannelData with
\* a file that is not valid base64, whatever size the file declares and
\* whatever the text and the files before it add up to, the maximum
\* exceeded or not; only when the running total overflows usize before the
\* first such file is the answer PayloadTooLarge.
C12_InvalidFileDataFirst ==
    call.fn = "validate_channel_data" =>
        LET data == call.args[1]
            bad == FirstUndecodable(data.files)
            before == DecodedBytes(SubSeq(data.files, 1, bad - 1))
        IN  bad > 0 =>
               IF before <= UsizeMax - data.text.n
               THEN call.out = "InvalidFileData"
               ELSE call.out = "PayloadTooLarge"

\* C12 witness: the text alone is over the maximum, a decodable file comes
\* first, and the answer is InvalidFileData for the file after it
C12_Witness ==
    /\ call.fn = "validate_channel_data"
    /\ call.args[1].text.n > MAX_CHANNEL_BYTES
    /\ call.args[1].files = <<FileA, FileBadBig>>
    /\ call.out = "InvalidFileData"

\* the stored hash is absent or the empty string
NoHash(stored_hash) == ~stored_hash.some \/ stored_hash.v = EmptyHash

\* C13: verify_channel_password is true for every provided password, absent
\* included, when the stored hash is absent or empty; so the gate of Fetch
\* and Update lets every caller through to a stored string whose record has
\* no or an empty password hash.
C13_UnprotectedOpen ==
    /\ (call.fn = "verify_channel_password" /\ NoHash(call.args[1])) => call.out = TRUE
    /\ (call.fn = "gate" /\ call.args[1].some
          /\ NoHash(deserialize_channel(call.args[1].v).password_hash))
       => call.out = Ok

\* C13 witness: a stored object with the empty string as password hash was
\* opened with a password
C13_Witness ==
    /\ call.fn = "gate"
    /\ call.args[1].some
    /\ deserialize_channel(call.args[1].v).password_hash = Some(EmptyHash)
    /\ call.args[2] = Some("wrong")
    /\ call.out = Ok

\* C14: hash_channel_password gives each password one digest, the same at
\* every application, and verify_channel_password against the digest of p
\* is true for p itself, false for every other password and false without a
\* password.
C14_HashVerifies ==
    /\ call.fn = "hash_channel_password" =>
          /\ call.out = hash_channel_password(call.args[1])
          /\ call.out # EmptyHash
          /\ \A q \in UnitPasswords :
                (hash_channel_password(q) = call.out) = (q = call.args[1])
    /\ call.fn = "verify_channel_password" =>
          \A p \in UnitPasswords :
              call.args[1] = Some(hash_channel_password(p))
              => call.out = (call.args[2] = Some(p))

\* C14 witness: the digest of one password was tried with another password
C14_Witness ==
    /\ call.fn = "verify_channel_password"
    /\ call.args[1] = Some(hash_channel_password("correct horse"))
    /\ call.args[2] = Some("wrong")
    /\ call.out = FALSE

\* C15: last write wins, whole: every stored value is the complete record
\* of the latest SET EX of its key, in the form its writer serializes, and
\* right after the SET EX of an Update the stored text and files are both
\* that Update's, whatever another Update or Create wrote between its GET
\* and its SET EX.
C15_LastWriteWinsWhole ==
    /\ \A k \in Keys :
          store[k].present
          => /\ lastWrite[k].some
             /\ \/ store[k].value = serialize_channel(
                        StoredChannel(StoredRecord(k).password_hash, lastWrite[k].v.data))
                \/ store[k].value = serialize_legacy(lastWrite[k].v.data)
    /\ (step.op = "update" /\ step.cmd = "SET" /\ step.answered)
       => /\ StoredRecord(StepKey).data = step.body
          /\ lastWrite[StepKey].v.data = step.body

\* C15 witness: the SET EX of an Update has just overwritten the record
\* that another Update, with another text and other files, wrote after this
\* Update's GET
C15_Witness ==
    /\ step.op = "update" /\ step.cmd = "SET" /\ step.answered
    /\ step.over.some /\ step.over.v.by = "update"
    /\ step.over # step.seen
    /\ step.over.v.data.text # step.body.text
    /\ step.over.v.data.files # step.body.files
    /\ StoredRecord(StepKey).data = step.body

\* C16: a Fetch whose GET found the channel succeeds once the store has
\* answered its TTL and its EXPIRE, with the text and the files of the value
\* it read, also when the key is gone by then; the EXPIRE on the missing key
\* changes nothing in the store and the key stays absent.
C16_FetchOutlivesKey ==
    (step.op = "fetch" /\ step.cmd = "EXPIRE" /\ step.answered)
    => /\ Succeeded("fetch")
       /\ resp.id = step.id
       /\ resp.text = step.seen.v.data.text
       /\ resp.files = step.seen.v.data.files
       /\ ~step.found => (step.unchanged /\ ~store[StepKey].present)

\* C16 witness: a Fetch has just returned the text it read from a key that
\* had expired before its TTL command, and the key is absent
C16_Witness ==
    /\ step.op = "fetch" /\ step.cmd = "EXPIRE" /\ step.answered
    /\ ~step.found
    /\ resp.ttl_seconds < 0
    /\ Succeeded("fetch")
    /\ resp.text = DataHello.text
    /\ ~store[StepKey].present

\* a request has just succeeded on the channel of key k
Refreshed(k) == resp.result = Ok /\ channel_key(resp.id) = k

\* what a channel's life allows at every step: an Active channel has between
\* one second and the configured TTL left; no request removes a key; and a
\* request step changes the store only when it answers success, so that a
\* failed request leaves every remaining TTL as it was
C17_Lifecycle ==
    /\ \A k \in Keys : store[k].present => store[k].ttl \in 1..ChannelTtl
    /\ (step.op # "none" /\ step.found) => store[StepKey].present
    /\ ~step.unchanged => (resp.result = Ok /\ resp.op = step.op /\ resp.id = step.id)
    /\ resp.result \in {"ChannelNotFound", "InvalidChannelPassword", "PayloadTooLarge",
                        "InvalidFileData", "Redis"} => step.unchanged

\* C17: a channel is Nonexistent or Active; it leaves Active only by expiry,
\* its remaining TTL is never above the configured one and only a successful
\* request changes it; and an Active channel eventually is Nonexistent
\* unless a request succeeds on it again.
C17_ExpiresUnlessRefreshed ==
    /\ []C17_Lifecycle
    /\ \A k \in Keys : store[k].present ~> (~store[k].present \/ Refreshed(k))

\* C17 witness: an Update has just failed validation on an Active channel
\* in its last second, which it still is
C17_Witness ==
    /\ AtGet("update") /\ resp.result = "InvalidFileData"
    /\ store[StepKey].present
    /\ store[StepKey].ttl = 1
    /\ ChannelTtl > 1

\* the value has the shape of a StoredChannel
IsStoredChannel(r) ==
    /\ DOMAIN r = {"password_hash", "data"}
    /\ DOMAIN r.data = {"text", "files"}
    /\ r.password_hash = None \/ r.password_hash = Some(r.password_hash.v)
    /\ DOMAIN r.data.files = 1..Len(r.data.files)

\* C18: deserialize_channel returns a StoredChannel for every stored string;
\* for a string that does not parse as a record (no JSON, no object, a field
\* twice or of the wrong type, a file without its fields) the record has the
\* whole raw string as text, no files and no password hash, and the gate of
\* Fetch and Update lets every caller through to it.
C18_DeserializeFallsBack ==
    /\ call.fn = "deserialize_channel" =>
          /\ IsStoredChannel(call.out)
          /\ ~ParseStoredChannel(call.args[1]).ok =>
                /\ call.out.data.text = call.args[1]
                /\ call.out.data.files = <<>>
                /\ call.out.password_hash = None
    /\ (call.fn = "gate" /\ call.args[1].some /\ ~ParseStoredChannel(call.args[1].v).ok)
       => call.out = Ok

\* C18 witness: a plain text was deserialized into a record with that text
C18_Witness ==
    /\ call.fn = "deserialize_channel"
    /\ call.args[1] = Str("plain unstructured text", 23)
    /\ call.out = StoredChannel(None, ChannelData(Str("plain unstructured text", 23), <<>>))

\* C19: deserialize_channel(serialize_channel(x)) = x for every StoredChannel
\* x: the password hash (absent, empty or a digest), the text (also one that
\* is itself a JSON document) and the files, with their fields and in their
\* order, all come back.
C19_CodecRoundTrip ==
    call.fn = "round_trip" =>
        /\ call.args[2] = serialize_channel(call.args[1])
        /\ ParseStoredChannel(call.args[2]).ok
        /\ call.out = call.args[1]
        /\ call.out.password_hash = call.args[1].password_hash
        /\ call.out.data.text = call.args[1].data.text
        /\ call.out.data.files = call.args[1].data.files

\* C19 witness: a record with a password hash, a text that is a JSON
\* document and two files came back as it was
C19_Witness ==
    /\ call.fn = "round_trip"
    /\ call.args[1] =
          StoredChannel(Some(hash_channel_password("pw1")), ChannelData(TextJson, <<FileB, FileA>>))
    /\ call.out = call.args[1]

\* C20: different identifiers have different keys, and no step of a Create,
\* a Fetch or an Update on one identifier changes the value, the existence
\* or the remaining TTL of the key of another identifier.
C20_OtherKeysUntouched ==
    /\ \A a \in Ids, b \in Ids : (channel_key(a) = channel_key(b)) = (a = b)
    /\ step.op # "none" => step.apart

\* C20 witness: a request has just changed the key of one identifier while
\* the key of the other identifier holds another value with less time left
C20_Witness ==
    /\ step.op # "none" /\ ~step.unchanged
    /\ \E k \in Keys \ {StepKey} :
          /\ store[k].present /\ store[StepKey].present
          /\ store[k].ttl < store[StepKey].ttl
          /\ store[k].value # store[StepKey].value

\* what the last step of a Fetch or an Update met, in the order the handler
\* looks: the store failed the command, the key was absent at the GET, the
\* password did not open the record, the body failed validation
StoreFailed == step.cmd \in {"GET", "EXPIRE", "SET"} /\ ~step.answered
Missing == step.cmd = "GET" /\ step.answered /\ ~step.found
Refused ==
    /\ step.cmd = "GET" /\ step.answered /\ step.found
    /\ Protected(StepKey) /\ Mismatch(StepKey, step.provided)
Invalid ==
    /\ AtGet("update") /\ step.found
    /\ ~(Protected(StepKey) /\ Mismatch(StepKey, step.provided))
    /\ ExpectedError(step.body) # Ok

\* C21: the failures of Fetch and Update have four outcomes, one each: 404
\* for a missing channel, 401 for a wrong or missing password, 400 for a
\* body that fails validation, 500 for a failure of the store or of the
\* serialization; each status is answered for its own condition only, and
\* no success carries one of them.
C21_FailuresDistinct ==
    /\ \A e \in AppErrors, f \in AppErrors :
          (into_response(e) = into_response(f))
          = \/ e = f
            \/ {e, f} \subseteq {"PayloadTooLarge", "InvalidFileData"}
            \/ {e, f} \subseteq {"BindAddress", "Redis", "Io", "Serialization"}
    /\ {into_response("ChannelNotFound"), into_response("InvalidChannelPassword"),
        into_response("PayloadTooLarge"), into_response("Serialization")}
          = {404, 401, 400, 500}
    /\ step.op \in {"fetch", "update"} =>
          /\ (resp.status = 404) = Missing
          /\ (resp.status = 401) = Refused
          /\ (resp.status = 400) = Invalid
          /\ (resp.status = 500) = StoreFailed
          /\ resp.status \in {0, 200, 204, 400, 401, 404, 500}
          /\ (resp.result = Ok) = (resp.status \in {200, 204})
          /\ (resp.status \in {400, 401, 404, 500}) = (resp.result \in AppErrors)

\* C21 witness: an Update without a password and with a body over the limit,
\* on a protected channel, has just been answered 401
C21_Witness ==
    /\ AtGet("update") /\ Refused
    /\ ~step.provided.some
    /\ step.body = DataOver
    /\ resp.status = 401

\* C22: create_channel does not look its identifier up: whenever the store
\* answers its SET EX the Create succeeds, also on the identifier of an
\* existing channel, whose record is then, whole, the new one: the new data
\* and the hash of the new password, with the full TTL.  No password but
\* the new one opens the channel any more: not the previous creator's,
\* unless the generator has returned the same password again.
C22_CreateOverwrites ==
    (step.op = "create" /\ step.cmd = "SET" /\ step.answered)
    => /\ Succeeded("create") /\ resp.id = step.id
       /\ store[StepKey].present
       /\ store[StepKey].value =
             serialize_channel(
                 StoredChannel(Some(hash_channel_password(resp.password.v)), step.body))
       /\ store[StepKey].ttl = ChannelTtl
       /\ \A q \in GenPasswords :
             verify_channel_password(StoredRecord(StepKey).password_hash, Some(q))
             = (q = resp.password.v)
       /\ ~verify_channel_password(StoredRecord(StepKey).password_hash, None)

\* C22 witness: a Create has just taken the identifier of a channel made
\* with password pw1 and other data; its own password is pw2, and pw1 no
\* longer opens the channel
C22_Witness ==
    /\ step.op = "create" /\ step.cmd = "SET" /\ step.answered
    /\ step.found
    /\ step.over.some
    /\ step.over.v.hash = Some(hash_channel_password("pw1"))
    /\ step.over.v.data # step.body
    /\ resp.password = Some("pw2")
    /\ StoredRecord(StepKey).data = step.body
    /\ ~verify_channel_password(StoredRecord(StepKey).password_hash, Some("pw1"))

\* C23: every key in the store has an expiry, with more than 0 and at most
\* the configured TTL seconds left: every write is a SET EX and every
\* refresh an EXPIRE, both with the configured TTL, which the key has right
\* after them.
C23_EveryKeyExpires ==
    /\ \A k \in Keys :
          store[k].present
          => /\ store[k].ttl # NoExpiry
             /\ store[k].ttl > 0
             /\ store[k].ttl <= ChannelTtl
    /\ (step.cmd = "SET" /\ step.answered)
       => (store[StepKey].present /\ store[StepKey].ttl = ttl_seconds)
    /\ (step.cmd = "EXPIRE" /\ step.answered /\ step.found)
       => (store[StepKey].present /\ store[StepKey].ttl = ttl_seconds)

\* C23 witness: an Update has just written its key with the full TTL while
\* the key of the other identifier is in its last second
C23_Witness ==
    /\ step.op = "update" /\ step.cmd = "SET" /\ step.answered
    /\ store[StepKey].ttl = ChannelTtl
    /\ \E k \in Keys \ {StepKey} : store[k].present /\ store[k].ttl = 1
    /\ ChannelTtl > 1

\* no SET EX has reached key k since the request whose GET saw the write seen
Unwritten(k, seen) == store[k].present /\ lastWrite[k] = seen

\* C24: no step of a Fetch changes a stored value or the existence of a
\* key: GET and TTL change nothing, EXPIRE at most the remaining TTL.  So a
\* Fetch returns, and a Fetch in flight holds, the text and files that are
\* still stored under its key while no write reaches the key, with the
\* password hash they were written with; and Fetches of one channel with no
\* write between them return the same text and files.
C24_FetchKeepsValue ==
    /\ step.op = "fetch" =>
          /\ step.kept
          /\ step.cmd \in {"GET", "TTL", "EXPIRE"}
          /\ step.cmd \in {"GET", "TTL"} => step.unchanged
    /\ (Succeeded("fetch") /\ Unwritten(StepKey, step.seen))
       => /\ StoredRecord(StepKey).data = ChannelData(resp.text, resp.files)
          /\ StoredRecord(StepKey).password_hash = step.seen.v.hash
    /\ \A p \in Procs :
          (req[p].op = "fetch" /\ Unwritten(channel_key(req[p].id), req[p].seen))
          => /\ req[p].data = StoredRecord(channel_key(req[p].id)).data
             /\ (Succeeded("fetch") /\ resp.id = req[p].id /\ step.seen = req[p].seen)
                => req[p].data = ChannelData(resp.text, resp.files)

\* C24 witness: a Fetch has just succeeded and refreshed the TTL of a
\* channel while another Fetch of the same channel, started before, holds
\* the same text and files, which are the ones stored
C24_Witness ==
    /\ Succeeded("fetch") /\ ~step.unchanged
    /\ \E p \in Procs :
          /\ pc[p] = "fetch_expire"
          /\ req[p].id = resp.id
          /\ req[p].ttl \in 1..(ChannelTtl - 1)
          /\ req[p].data = ChannelData(resp.text, resp.files)
    /\ StoredRecord(StepKey).data = ChannelData(resp.text, resp.files)

====
